---- MODULE Spec2Model ----
(***************************************************************************)
(* Demand-forecasting backend: app/services/demand_prediction_service.py   *)
(* (gateway, aggregator, feature builder, trainer, predictor) and          *)
(* app/routers/ml_reports.py (retraining and prediction triggers).         *)
(*                                                                         *)
(* Time is counted in minutes from 2024-01-15T00:00 (a Monday).  A raw     *)
(* start_time is the pair [h, m] of its hour and minute fields; it parses  *)
(* exactly when the minute field is below 60.  Raw estimator outputs are   *)
(* counted in units of 1/Scale.                                            *)
(***************************************************************************)
EXTENDS Integers, Sequences, FiniteSets, TLC

VARIABLES fs, lastGood, call, table, req, loop, response

\* fs        the file system: the file at MODEL_FILE_PATH
\* lastGood  the estimator saved by the last training run that returned
\*           True (empty before the first)
\* call      the direct call of a public operation in progress or returned
\* table     the rows of the sessions table, by their start_time
\* req       the requests in flight, one per slot
\* loop      the slot whose handler the event loop is inside, 0 when idle
\* response  the last response sent by the request layer
vars == <<fs, lastGood, call, table, req, loop, response>>

(***************************************************************************)
(* Bounds of the model.                                                    *)
(***************************************************************************)
MaxHour == 10
MaxRows == 2
MaxCoef == 1
MaxHoursAhead == 3
MaxSlots == 2
NChunks == 2
Scale == 4

(***************************************************************************)
(* Program constants.                                                      *)
(***************************************************************************)
MinutesPerHour == 60
MIN_POINTS == 10

\* The one well-known artifact location.  The service reads the module
\* global MODEL_FILE_PATH (lines 130-131, 150-151) and the router reads
\* demand_service.MODEL_FILE_PATH; its assignment is not in the files at hand.
MODEL_FILE_PATH == "MODEL_FILE_PATH"

NaT == -1

SeqsUpTo(S, n) == UNION {[1..k -> S] : k \in 0..n}

SetMin(S) == CHOOSE x \in S : \A y \in S : x <= y
SetMax(S) == CHOOSE x \in S : \A y \in S : x >= y

(***************************************************************************)
(* Inputs.                                                                 *)
(***************************************************************************)
BadRaw == [h |-> 0, m |-> 60]
RawValues == {[h |-> h, m |-> m] : h \in 0..MaxHour, m \in {0, 59}} \cup {BadRaw}
\* Hours around the training threshold: spans of MIN_POINTS-1, MIN_POINTS and
\* MIN_POINTS+1 points.
StoreHours == {0} \cup ((MIN_POINTS - 2)..MIN_POINTS)
StoreValues == {r \in RawValues : r.h \in StoreHours /\ r.m # 59}

\* A DataFrame: whether it has a start_time column, and that column's values
\* (for a frame without the column, one placeholder per row).
DataFrames ==
    {[has_start_time |-> TRUE, rows |-> rs] : rs \in SeqsUpTo(RawValues, MaxRows)}
    \cup {[has_start_time |-> FALSE, rows |-> [i \in 1..k |-> BadRaw]] : k \in 0..MaxRows}

EmptyDataFrame == [has_start_time |-> FALSE, rows |-> <<>>]

\* pd.Series(dtype='int'): no values, and an index that is no DatetimeIndex.
EmptySeries == [dtindex |-> FALSE, index |-> <<>>, values |-> <<>>]

(***************************************************************************)
(* Aggregator.                                                             *)
(***************************************************************************)
\* pd.to_datetime(..., errors='coerce') on one value
to_datetime_coerce(raw) ==
    IF raw.m < 60 THEN raw.h * MinutesPerHour + raw.m ELSE NaT

\* df.dropna(subset=['start_time'])
dropna_Keep(times) == times
dropna(times) == SelectSeq(times, LAMBDA t : t # NaT)

\* the left edge of the hourly bin that holds t
FloorHour_Nearest(t) == ((t + 30) \div MinutesPerHour) * MinutesPerHour
FloorHour(t) == (t \div MinutesPerHour) * MinutesPerHour

\* pd.date_range(start, end, freq='H')
date_range(start, end) ==
    [i \in 1..((end - start) \div MinutesPerHour + 1) |-> start + (i - 1) * MinutesPerHour]

\* df.resample('H').size(): the hourly bins from the first record's to the
\* last record's, each with the number of records in it
resample_size(times) ==
    LET floors == {FloorHour(times[k]) : k \in DOMAIN times}
        first == SetMin(floors)
        last == SetMax(floors)
        bins == {first + k * MinutesPerHour : k \in 0..((last - first) \div MinutesPerHour)}
    IN  [b \in bins |-> Cardinality({k \in DOMAIN times : FloorHour(times[k]) = b})]

\* hourly_counts.reindex(full_hourly_index, fill_value=0)
reindex(counts, full_index) ==
    [i \in DOMAIN full_index |->
        IF full_index[i] \in DOMAIN counts THEN counts[full_index[i]] ELSE 0]

\* The result of a call: the exception it raised ("None" if it returned) and
\* the value it returned.
clean_and_aggregate_data(df) ==
    IF df.rows = <<>> THEN [raised |-> "None", value |-> EmptySeries]
    ELSE IF ~df.has_start_time THEN [raised |-> "KeyError", value |-> EmptySeries]
    ELSE
      LET parsed == [i \in DOMAIN df.rows |-> to_datetime_coerce(df.rows[i])]
          times == dropna(parsed)
      IN  IF times = <<>> THEN [raised |-> "None", value |-> EmptySeries]
          ELSE
            LET hourly_counts == resample_size(times)
                min_time == SetMin(DOMAIN hourly_counts)
                max_time == SetMax(DOMAIN hourly_counts)
                full_hourly_index == date_range(min_time, max_time)
            IN  [raised |-> "None",
                 value |-> [dtindex |-> TRUE,
                            index |-> full_hourly_index,
                            values |-> reindex(hourly_counts, full_hourly_index)]]

(***************************************************************************)
(* Feature builder.                                                        *)
(***************************************************************************)
\* Calendar position of minute t; minute 0 is 00:00 of day-of-year 15, a
\* Monday of a year whose January has 31 days and February 29.
TimeFeatures(t) ==
    LET day == t \div (24 * MinutesPerHour)
        doy == 15 + day
        month == IF doy <= 31 THEN 1 ELSE IF doy <= 60 THEN 2 ELSE 3
    IN  [hour |-> (t \div MinutesPerHour) % 24,
         dayofweek |-> day % 7,
         month |-> month,
         dayofyear |-> doy,
         quarter |-> (month - 1) \div 3 + 1]

\* An empty sequence is the empty DataFrame.
create_time_features(series) ==
    IF series.values = <<>> \/ ~series.dtindex THEN <<>>
    ELSE [i \in DOMAIN series.index |-> TimeFeatures(series.index[i])]

(***************************************************************************)
(* Direct calls of the pure operations.                                    *)
(***************************************************************************)
NoCall == [op |-> "none", pc |-> "idle"]

\* The series the aggregator can return, and one whose index is no DatetimeIndex
SeriesInputs ==
    {clean_and_aggregate_data(df).value : df \in DataFrames}
    \cup {[dtindex |-> FALSE, index |-> <<0>>, values |-> <<1>>]}

(***************************************************************************)
(* Estimator and model artifact.                                           *)
(***************************************************************************)
\* A fitted LinearRegression: intercept b and weight w of the hour feature,
\* both in units of 1/Scale.  The estimator is a black box: fit returns any
\* of them and does not raise on a series of counts.
Models == [b : 0..MaxCoef, w : {-1, 1}]

\* model.predict on one feature row, in units of 1/Scale
model_predict(model, x) == model.b + model.w * x.hour

\* The bytes joblib.dump writes for a model, as NChunks successive writes
Pickle_Unfitted(model) == [i \in 1..NChunks |-> [m |-> [b |-> 0, w |-> 0], part |-> i]]
Pickle(model) == [i \in 1..NChunks |-> [m |-> model, part |-> i]]

Hole == [m |-> [b |-> 0, w |-> 0], part |-> 0]

NoFile == [exists |-> FALSE, data |-> <<>>]

\* open(MODEL_FILE_PATH, 'wb'): creates the file or truncates it
open_wb(file) == [exists |-> TRUE, data |-> <<>>]

\* write of one chunk at position pos of the writer's own file handle
write_chunk(file, pos, chunk) ==
    [exists |-> TRUE,
     data |-> [i \in 1..(IF Len(file.data) > pos THEN Len(file.data) ELSE pos) |->
                 IF i = pos THEN chunk
                 ELSE IF i <= Len(file.data) THEN file.data[i] ELSE Hole]]

\* joblib.load: the exception it raises ("None" if it returns) and the model
joblib_load(file) ==
    IF ~file.exists THEN [raised |-> "FileNotFoundError", model |-> <<>>]
    ELSE IF /\ Len(file.data) = NChunks
            /\ \A i \in 1..NChunks :
                  file.data[i].part = i /\ file.data[i].m = file.data[1].m
         THEN [raised |-> "None", model |-> <<file.data[1].m>>]
         ELSE [raised |-> "EOFError", model |-> <<>>]

Artifact == fs[MODEL_FILE_PATH]

(***************************************************************************)
(* Trainer.                                                                *)
(***************************************************************************)
\* line 111: time_series_data.empty or len(time_series_data) < 10
InsufficientData_OffByOne(series) ==
    series.values = <<>> \/ Len(series.values) <= MIN_POINTS
InsufficientData(series) ==
    series.values = <<>> \/ Len(series.values) < MIN_POINTS

\* train_demand_model returns False before it fits anything
TrainRejects(series) ==
    InsufficientData(series) \/ create_time_features(series) = <<>>

(***************************************************************************)
(* Predictor.                                                              *)
(***************************************************************************)
\* pd.date_range(start=last_known_time + 1h, periods=hours_ahead, freq='H',
\* tz=last_known_time.tz); a negative number of periods raises ValueError
FutureIndex_NoOffset(last_known_time, hours_ahead) ==
    [i \in 1..hours_ahead |->
        [min |-> last_known_time.min + (i - 1) * MinutesPerHour,
         tz |-> last_known_time.tz]]
FutureIndex(last_known_time, hours_ahead) ==
    [i \in 1..hours_ahead |->
        [min |-> last_known_time.min + MinutesPerHour + (i - 1) * MinutesPerHour,
         tz |-> last_known_time.tz]]

maximum0(x) == IF x < 0 THEN 0 ELSE x

\* np.round: to the nearest integer, a tie to the even one
np_round(x) ==
    LET q == x \div Scale
        r == x % Scale
    IN  IF 2 * r < Scale THEN q
        ELSE IF 2 * r > Scale THEN q + 1
        ELSE IF q % 2 = 0 THEN q ELSE q + 1

\* line 175: np.round(np.maximum(0, predictions_raw)).astype(int)
CleanPrediction_NoClamp(x) == np_round(x)
CleanPrediction(x) == np_round(maximum0(x))

NoPrediction(load) ==
    [ok |-> FALSE, load |-> load, model |-> <<>>, raw |-> <<>>, rows |-> <<>>]

\* ok is FALSE when the function returns None; load is what joblib.load did
\* and model the estimator that the rows were computed with
predict_future_demand(last_known_time, hours_ahead, file) ==
    IF ~last_known_time.is_timestamp THEN NoPrediction("skipped")
    ELSE IF joblib_load(file).raised = "FileNotFoundError" THEN NoPrediction("missing")
    ELSE IF joblib_load(file).raised # "None" THEN NoPrediction("corrupt")
    ELSE IF hours_ahead < 0 THEN NoPrediction("ok")
    ELSE
      LET model == joblib_load(file).model[1]
          future_index == FutureIndex(last_known_time, hours_ahead)
          X_future == create_time_features(
                        [dtindex |-> TRUE,
                         index |-> [i \in DOMAIN future_index |-> future_index[i].min],
                         values |-> [i \in DOMAIN future_index |-> 0]])
      IN  IF X_future = <<>> THEN NoPrediction("ok")
          ELSE
            LET predictions_raw == [i \in DOMAIN X_future |-> model_predict(model, X_future[i])]
            IN  [ok |-> TRUE, load |-> "ok", model |-> <<model>>, raw |-> predictions_raw,
                 rows |-> [i \in DOMAIN future_index |->
                            [time |-> future_index[i],
                             predicted_sessions |-> CleanPrediction(predictions_raw[i])]]]

(***************************************************************************)
(* Direct calls of the public operations by one sequential caller.         *)
(***************************************************************************)
\* The hourly series a caller trains on: what the aggregator returns for
\* the rows of a store, and one whose index is no DatetimeIndex
StoreFrames ==
    {[has_start_time |-> TRUE, rows |-> rs] : rs \in SeqsUpTo(StoreValues, MaxRows)}

TrainInputs ==
    {clean_and_aggregate_data(df).value : df \in StoreFrames}
    \cup {[dtindex |-> FALSE, index |-> [i \in 1..MIN_POINTS |-> i],
           values |-> [i \in 1..MIN_POINTS |-> 1]]}

Timestamps ==
    {[is_timestamp |-> TRUE, min |-> h * MinutesPerHour + m, tz |-> tz] :
        h \in StoreHours, m \in {0, 59}, tz \in {"None", "UTC"}}
    \cup {[is_timestamp |-> FALSE, min |-> 0, tz |-> "None"]}

\* The last response sent: its status and what its handler saw.  load is
\* what joblib.load did, nrows is 1 when the store returned rows and 0 when
\* it returned none or failed, npoints the length of
\* the aggregated series, trainer what train_demand_model returned, model
\* the estimator the predictions were computed with.
NoResponse ==
    [kind |-> "none", status |-> 0, load |-> "skipped", nrows |-> 0, npoints |-> 0,
     trainer |-> "not_called", model |-> <<>>]

Slots == 1..MaxSlots

Idle == [kind |-> "idle", pc |-> "idle", model |-> <<>>, pos |-> 0, nrows |-> 0, npoints |-> 0]

Init ==
    /\ fs = [p \in {MODEL_FILE_PATH} |-> NoFile]
    /\ lastGood = <<>>
    /\ call = NoCall
    /\ table = <<>>
    /\ req = [s \in Slots |-> Idle]
    /\ loop = 0
    /\ response = NoResponse

CallAggregate(df) ==
    /\ call.op = "none"
    /\ call' = [op |-> "clean_and_aggregate_data", pc |-> "returned", df |-> df,
                raised |-> clean_and_aggregate_data(df).raised,
                series |-> clean_and_aggregate_data(df).value]
    /\ UNCHANGED <<fs, lastGood, table, req, loop, response>>

CallFeatures(series) ==
    /\ call.op = "none"
    /\ call' = [op |-> "create_time_features", pc |-> "returned", series |-> series,
                raised |-> "None",
                features |-> create_time_features(series)]
    /\ UNCHANGED <<fs, lastGood, table, req, loop, response>>

\* The caller takes the result; the next call can start.
Return ==
    /\ call.op # "none"
    /\ call.pc = "returned"
    /\ call' = NoCall
    /\ UNCHANGED <<fs, lastGood, table, req, loop, response>>

NextPure ==
    \/ \E df \in DataFrames : CallAggregate(df)
    \/ \E series \in SeriesInputs : CallFeatures(series)
    \/ Return

SpecPure == Init /\ [][NextPure]_vars

\* train_demand_model up to the save: rejects, or fits and goes on to save.
\* pre is the artifact as the call found it; caught is the exception that
\* line 134 caught.
CallTrain(series) ==
    /\ call.op = "none"
    /\ IF TrainRejects(series)
       THEN call' = [op |-> "train_demand_model", pc |-> "returned", series |-> series,
                     pre |-> Artifact, model |-> <<>>, pos |-> 0, caught |-> "None",
                     result |-> FALSE]
       ELSE \E model \in Models :
              call' = [op |-> "train_demand_model", pc |-> "dump_open", series |-> series,
                       pre |-> Artifact, model |-> <<model>>, pos |-> 1, caught |-> "None",
                       result |-> FALSE]
    /\ UNCHANGED <<fs, lastGood, table, req, loop, response>>

\* joblib.dump opens the file for writing; an OSError is caught at line 134
CallDumpOpen ==
    /\ call.op = "train_demand_model"
    /\ call.pc = "dump_open"
    /\ \/ /\ fs' = [fs EXCEPT ![MODEL_FILE_PATH] = open_wb(@)]
          /\ call' = [call EXCEPT !.pc = "dump_write"]
       \/ /\ call' = [call EXCEPT !.pc = "returned", !.caught = "OSError"]
          /\ UNCHANGED fs
    /\ UNCHANGED <<lastGood, table, req, loop, response>>

\* joblib.dump writes the next chunk; after the last one the file is closed
\* and train_demand_model returns True
CallDumpWrite ==
    /\ call.op = "train_demand_model"
    /\ call.pc = "dump_write"
    /\ \/ /\ fs' = [fs EXCEPT ![MODEL_FILE_PATH] =
                      write_chunk(@, call.pos, Pickle(call.model[1])[call.pos])]
          /\ IF call.pos = NChunks
             THEN /\ call' = [call EXCEPT !.pc = "returned", !.result = TRUE]
                  /\ lastGood' = call.model
             ELSE /\ call' = [call EXCEPT !.pos = @ + 1]
                  /\ UNCHANGED lastGood
       \/ /\ call' = [call EXCEPT !.pc = "returned", !.caught = "OSError"]
          /\ UNCHANGED <<fs, lastGood>>
    /\ UNCHANGED <<table, req, loop, response>>

CallPredict(last_known_time, hours_ahead) ==
    /\ call.op = "none"
    /\ call' = [op |-> "predict_future_demand", pc |-> "returned",
                last_known_time |-> last_known_time, hours_ahead |-> hours_ahead,
                raised |-> "None",
                out |-> predict_future_demand(last_known_time, hours_ahead, Artifact)]
    /\ UNCHANGED <<fs, lastGood, table, req, loop, response>>

NextCore ==
    \/ \E series \in TrainInputs : CallTrain(series)
    \/ CallDumpOpen
    \/ CallDumpWrite
    \/ \E t \in Timestamps, n \in (-1)..MaxHoursAhead : CallPredict(t, n)
    \/ Return

SpecCore == Init /\ [][NextCore]_vars

(***************************************************************************)
(* The store and the gateway.                                              *)
(***************************************************************************)
\* The store's order on start_time values
RawKey(raw) == raw.h * 100 + raw.m

\* The sessions table, kept in ascending start_time order
SortedInsert(rows, raw) ==
    LET k == Cardinality({i \in DOMAIN rows : RawKey(rows[i]) <= RawKey(raw)})
    IN  SubSeq(rows, 1, k) \o <<raw>> \o SubSeq(rows, k + 1, Len(rows))

\* get_historical_session_data: the rows of the query as a DataFrame; the
\* empty DataFrame when the query raises or returns no data.  Every row of
\* the table lies inside the 180-day window of the query.
get_historical_session_data(raised, data) ==
    IF raised THEN EmptyDataFrame
    ELSE IF data # <<>> THEN [has_start_time |-> TRUE, rows |-> data]
    ELSE EmptyDataFrame

\* pd.to_datetime with the default errors='raise'
to_datetime(raw) ==
    IF raw.m < 60 THEN [raised |-> "None", value |-> raw.h * MinutesPerHour + raw.m]
    ELSE [raised |-> "ValueError", value |-> NaT]

(***************************************************************************)
(* Request layer: one event loop runs the coroutines of the requests.  A   *)
(* handler gives the loop up at its await and nowhere else.                *)
(***************************************************************************)
\* The event loop can run a step of request s: it is idle, or it is inside
\* the synchronous part of s's own handler.
CanRun(s) == loop = 0 \/ loop = s

\* line 40 of the router: time_series.empty or len(time_series) < 10
TooFewPoints_OffByOne(time_series) ==
    time_series.values = <<>> \/ Len(time_series.values) < MIN_POINTS - 1
TooFewPoints(time_series) ==
    time_series.values = <<>> \/ Len(time_series.values) < MIN_POINTS

RetrainResponse(status, nrows, npoints, trainer) ==
    [kind |-> "retrain", status |-> status, load |-> "skipped", nrows |-> nrows,
     npoints |-> npoints, trainer |-> trainer, model |-> <<>>]

PredictResponse(status, load, nrows, model) ==
    [kind |-> "predict", status |-> status, load |-> load, nrows |-> nrows,
     npoints |-> 0, trainer |-> "not_called", model |-> model]

\* A session is recorded in the store.
InsertSession(raw) ==
    /\ Len(table) < MaxRows
    /\ table' = SortedInsert(table, raw)
    /\ UNCHANGED <<fs, lastGood, call, req, loop, response>>

\* A request arrives; its handler runs up to its await of the store query.
StartRequest(s, kind) ==
    /\ req[s].kind = "idle"
    /\ CanRun(s)
    /\ req' = [req EXCEPT ![s] = [Idle EXCEPT !.kind = kind, !.pc = "await"]]
    /\ UNCHANGED <<fs, lastGood, call, table, loop, response>>

\* trigger_demand_model_training from the gateway's answer to the save
RetrainResume(s) ==
    /\ req[s].kind = "retrain"
    /\ req[s].pc = "await"
    /\ CanRun(s)
    /\ \E raised \in BOOLEAN :
         LET historical_data_df == get_historical_session_data(raised, table)
             nrows == IF historical_data_df.rows = <<>> THEN 0 ELSE 1
         IN  \E agg \in {clean_and_aggregate_data(historical_data_df)} :
             LET time_series == agg.value
                 npoints == Len(time_series.values)
             IN
             IF historical_data_df.rows = <<>>
             THEN /\ response' = RetrainResponse(404, nrows, 0, "not_called")
                  /\ req' = [req EXCEPT ![s] = Idle]
                  /\ UNCHANGED loop
             ELSE IF agg.raised # "None"
             THEN /\ response' = RetrainResponse(500, nrows, 0, "not_called")
                  /\ req' = [req EXCEPT ![s] = Idle]
                  /\ UNCHANGED loop
             ELSE IF TooFewPoints(time_series)
             THEN /\ response' = RetrainResponse(400, nrows, npoints, "not_called")
                  /\ req' = [req EXCEPT ![s] = Idle]
                  /\ UNCHANGED loop
             ELSE IF TrainRejects(time_series)
             THEN /\ response' = RetrainResponse(500, nrows, npoints, "false")
                  /\ req' = [req EXCEPT ![s] = Idle]
                  /\ UNCHANGED loop
             ELSE /\ \E model \in Models :
                       req' = [req EXCEPT ![s] =
                                 [kind |-> "retrain", pc |-> "dump_open",
                                  model |-> <<model>>, pos |-> 1,
                                  nrows |-> nrows, npoints |-> npoints]]
                  /\ loop' = s
                  /\ UNCHANGED response
    /\ UNCHANGED <<fs, lastGood, call, table>>

\* joblib.dump opens the artifact for writing, or raises: the trainer
\* returns False and the trigger answers 500
DumpOpen(s) ==
    /\ req[s].pc = "dump_open"
    /\ CanRun(s)
    /\ \/ /\ fs' = [fs EXCEPT ![MODEL_FILE_PATH] = open_wb(@)]
          /\ req' = [req EXCEPT ![s].pc = "dump_write"]
          /\ UNCHANGED <<loop, response>>
       \/ /\ response' = RetrainResponse(500, req[s].nrows, req[s].npoints, "false")
          /\ req' = [req EXCEPT ![s] = Idle]
          /\ loop' = IF loop = s THEN 0 ELSE loop
          /\ UNCHANGED fs
    /\ UNCHANGED <<lastGood, call, table>>

\* joblib.dump writes the next chunk, or raises; after the last chunk the
\* trainer returns True and the trigger answers success
DumpWrite(s) ==
    /\ req[s].pc = "dump_write"
    /\ CanRun(s)
    /\ \/ /\ fs' = [fs EXCEPT ![MODEL_FILE_PATH] =
                      write_chunk(@, req[s].pos, Pickle(req[s].model[1])[req[s].pos])]
          /\ IF req[s].pos = NChunks
             THEN /\ response' = RetrainResponse(200, req[s].nrows, req[s].npoints, "true")
                  /\ req' = [req EXCEPT ![s] = Idle]
                  /\ loop' = IF loop = s THEN 0 ELSE loop
                  /\ lastGood' = req[s].model
             ELSE /\ req' = [req EXCEPT ![s].pos = @ + 1]
                  /\ UNCHANGED <<loop, response, lastGood>>
       \/ /\ response' = RetrainResponse(500, req[s].nrows, req[s].npoints, "false")
          /\ req' = [req EXCEPT ![s] = Idle]
          /\ loop' = IF loop = s THEN 0 ELSE loop
          /\ UNCHANGED <<fs, lastGood>>
    /\ UNCHANGED <<call, table>>

\* get_demand_prediction from the store's answer to the response.  The
\* predictor raises nothing, so the handler's FileNotFoundError clause
\* (503) is never entered.
PredictResume(s, hours_ahead) ==
    /\ req[s].kind = "predict"
    /\ req[s].pc = "await"
    /\ CanRun(s)
    /\ \E raised \in BOOLEAN :
         IF raised
         THEN response' = PredictResponse(500, "skipped", 0, <<>>)
         ELSE IF table = <<>>
         THEN response' = PredictResponse(404, "skipped", 0, <<>>)
         ELSE LET parsed == to_datetime(table[Len(table)])
              IN  IF parsed.raised # "None"
                  THEN response' = PredictResponse(500, "skipped", 1, <<>>)
                  ELSE LET last_known_time ==
                               [is_timestamp |-> TRUE, min |-> FloorHour(parsed.value),
                                tz |-> "UTC"]
                       IN  \E predictions_df \in
                                 {predict_future_demand(last_known_time, hours_ahead, Artifact)} :
                             IF ~predictions_df.ok
                             THEN response' = PredictResponse(500, predictions_df.load, 1, <<>>)
                             ELSE response' = PredictResponse(200, predictions_df.load, 1,
                                                              predictions_df.model)
    /\ req' = [req EXCEPT ![s] = Idle]
    /\ UNCHANGED <<fs, lastGood, call, table, loop>>

Next ==
    \/ \E raw \in StoreValues : InsertSession(raw)
    \/ \E s \in Slots, kind \in {"retrain", "predict"} : StartRequest(s, kind)
    \/ \E s \in Slots : RetrainResume(s)
    \/ \E s \in Slots : DumpOpen(s)
    \/ \E s \in Slots : DumpWrite(s)
    \/ \E s \in Slots, hours_ahead \in 1..MaxHoursAhead : PredictResume(s, hours_ahead)

Spec == Init /\ [][Next]_vars

(***************************************************************************)
(* Properties.                                                             *)
(***************************************************************************)
TrainReturned == call.op = "train_demand_model" /\ call.pc = "returned"
PredictReturned == call.op = "predict_future_demand" /\ call.pc = "returned"
AggregateReturned == call.op = "clean_and_aggregate_data" /\ call.pc = "returned"

\* C1 as stated: a training call on an hourly series of fewer than 10
\* points returns False and leaves the artifact as it found it, and a call
\* on an hourly series of 10 or more points returns True and leaves the
\* pickle of the newly fitted estimator at the artifact location.
C1_TenPointsAlwaysSucceed ==
    TrainReturned =>
        /\ Len(call.series.values) < MIN_POINTS =>
              ~call.result /\ Artifact = call.pre
        /\ (Len(call.series.values) >= MIN_POINTS /\ call.series.dtindex) =>
              /\ call.result
              /\ Artifact = [exists |-> TRUE, data |-> Pickle(call.model[1])]

\* C1 as amended: a training call on fewer than 10 points returns False and
\* leaves the artifact as it found it; a call on an hourly series of 10 or
\* more points returns True with the pickle of the newly fitted estimator at
\* the artifact location, unless the save raised, and then it returns False.
C1_TrainingMinimum ==
    TrainReturned =>
        /\ Len(call.series.values) < MIN_POINTS =>
              ~call.result /\ Artifact = call.pre
        /\ (Len(call.series.values) >= MIN_POINTS /\ call.series.dtindex) =>
              IF call.caught = "None"
              THEN /\ call.result
                   /\ Artifact = [exists |-> TRUE, data |-> Pickle(call.model[1])]
              ELSE ~call.result

\* A call on exactly 10 points has returned True and replaced an older,
\* different artifact.
C1_Witness ==
    /\ TrainReturned
    /\ Len(call.series.values) = MIN_POINTS
    /\ call.result
    /\ call.pre.exists
    /\ call.pre # Artifact
    /\ Artifact.data = Pickle(call.model[1])

\* C2: a prediction request that finds no artifact at the artifact location
\* is answered model-not-trained (503).
C2_MissingModelAnswers503 ==
    (response.kind = "predict" /\ response.load = "missing") => response.status = 503

\* C3: once a training run has returned False, an artifact saved by an
\* earlier successful run still loads and is the one the last successful
\* run saved.
C3_FailedRunKeepsArtifact ==
    (TrainReturned /\ ~call.result /\ lastGood # <<>>) =>
        /\ joblib_load(Artifact).raised = "None"
        /\ joblib_load(Artifact).model = lastGood

\* C4: whenever a predictor can read the artifact (no handler is inside its
\* synchronous part), an artifact that exists is the complete output of
\* exactly one training run.
C4_ArtifactAlwaysComplete ==
    (loop = 0 /\ Artifact.exists) => \E m \in Models : Artifact.data = Pickle(m)

\* The part of C4 that the event loop gives: no two requests are inside the
\* save at once, and the chunks of the artifact all come from one run.
WritesSerialized ==
    /\ Cardinality({s \in Slots : req[s].pc \in {"dump_open", "dump_write"}}) <= 1
    /\ \A i, j \in DOMAIN Artifact.data : Artifact.data[i].m = Artifact.data[j].m

ValidRows(df) == {i \in DOMAIN df.rows : df.rows[i].m < 60}

\* C5: for an input with a parseable record, the index of the output is the
\* complete ascending hourly grid from the smallest to the largest start
\* hour, and each bucket counts the records that start in its hour.
C5_AggregationCompleteness ==
    (AggregateReturned /\ call.df.has_start_time /\ ValidRows(call.df) # {}) =>
        LET rows == call.df.rows
            valid == ValidRows(call.df)
            lo == SetMin({rows[i].h : i \in valid})
            hi == SetMax({rows[i].h : i \in valid})
        IN  /\ call.raised = "None"
            /\ Len(call.series.index) = hi - lo + 1
            /\ Len(call.series.values) = hi - lo + 1
            /\ \A k \in 1..(hi - lo + 1) :
                  /\ call.series.index[k] = (lo + k - 1) * MinutesPerHour
                  /\ call.series.values[k] =
                        Cardinality({i \in valid : rows[i].h = lo + k - 1})

\* Two records late in their hours, with an empty hour between them.
C5_Witness ==
    /\ AggregateReturned
    /\ call.df.has_start_time
    /\ Len(call.df.rows) = 2
    /\ \A i \in DOMAIN call.df.rows : call.df.rows[i].m = 59
    /\ \E k \in DOMAIN call.series.values : call.series.values[k] = 0

\* C6: a prediction that succeeds for hours_ahead = n >= 1 has exactly n
\* rows, and row i is at last_known_time + i hours in its timezone.
C6_PredictionGrid ==
    (PredictReturned /\ call.out.ok /\ call.hours_ahead >= 1) =>
        /\ Len(call.out.rows) = call.hours_ahead
        /\ \A i \in 1..call.hours_ahead :
              /\ call.out.rows[i].time.min =
                    call.last_known_time.min + i * MinutesPerHour
              /\ call.out.rows[i].time.tz = call.last_known_time.tz

C6_Witness ==
    /\ PredictReturned
    /\ call.out.ok
    /\ call.hours_ahead = MaxHoursAhead
    /\ call.last_known_time.tz = "UTC"
    /\ call.last_known_time.min % MinutesPerHour # 0

\* C7: every row of a prediction has a natural number of predicted
\* sessions, and 0 where the raw output of the estimator is negative.
C7_NonNegativity ==
    (PredictReturned /\ call.out.ok) =>
        \A i \in DOMAIN call.out.rows :
            /\ call.out.rows[i].predicted_sessions \in Nat
            /\ call.out.raw[i] < 0 => call.out.rows[i].predicted_sessions = 0

\* A row whose raw output is below -1.
C7_Witness ==
    /\ PredictReturned
    /\ call.out.ok
    /\ \E i \in DOMAIN call.out.rows :
          call.out.raw[i] < -Scale /\ call.out.rows[i].predicted_sessions = 0

\* C8: a retraining request is answered 200, 404, 400 or 500: 404 exactly
\* when the gateway returns no rows, 400 exactly when it returns rows and
\* the aggregated series has fewer than 10 points, 200 exactly when the
\* trainer returned True, and 500 when the trainer returned False; the
\* trainer is called only once both checks have passed.
C8_RetrainOutcomes ==
    response.kind = "retrain" =>
        /\ response.status \in {200, 404, 400, 500}
        /\ response.status = 404 <=> response.nrows = 0
        /\ response.status = 400 <=>
              (response.nrows > 0 /\ response.npoints < MIN_POINTS)
        /\ response.status = 200 <=> response.trainer = "true"
        /\ response.trainer = "false" => response.status = 500
        /\ response.trainer # "not_called" =>
              (response.nrows > 0 /\ response.npoints >= MIN_POINTS)

\* The trainer was called after both checks and returned False.
C8_Witness ==
    /\ response.kind = "retrain"
    /\ response.status = 500
    /\ response.trainer = "false"
    /\ response.npoints >= MIN_POINTS

\* C9: no call of the aggregator or the feature builder raises.
C9_NoOperationRaises ==
    (call.op \in {"clean_and_aggregate_data", "create_time_features"}) =>
        call.raised = "None"

\* C10: the aggregator returns for every input that has the start_time
\* column; for an empty input or one whose every start_time fails to parse
\* it returns an empty series, and otherwise the records that fail to parse
\* add no bucket: the index runs from the first to the last parseable hour.
C10_AggregationEmptiness ==
    (AggregateReturned /\ (call.df.has_start_time \/ call.df.rows = <<>>)) =>
        /\ call.raised = "None"
        /\ IF ValidRows(call.df) = {}
           THEN call.series.values = <<>> /\ call.series.index = <<>>
           ELSE LET hours == {call.df.rows[i].h : i \in ValidRows(call.df)}
                IN  /\ call.series.index[1] = SetMin(hours) * MinutesPerHour
                    /\ Len(call.series.index) = SetMax(hours) - SetMin(hours) + 1

\* An input of two records, neither of which parses.
C10_Witness ==
    /\ AggregateReturned
    /\ call.df.has_start_time
    /\ Len(call.df.rows) = 2
    /\ ValidRows(call.df) = {}
    /\ call.series.values = <<>>

\* A prediction request is answered with predictions in this step.
PredictionAnswered ==
    /\ \E s \in Slots : req[s].kind = "predict" /\ req'[s].kind = "idle"
    /\ response'.kind = "predict"
    /\ response'.status = 200

\* C11: every prediction that is answered was computed with the estimator
\* that the most recent successful training run saved, and with no other:
\* not an older one, not one kept from an earlier request.
C11_StalenessEnds ==
    [][PredictionAnswered => (lastGood # <<>> /\ response'.model = lastGood)]_vars

\* A prediction computed with the estimator of the last successful run,
\* answered while another retraining request is waiting for the store.
C11_Witness ==
    /\ response.kind = "predict"
    /\ response.status = 200
    /\ lastGood # <<>>
    /\ response.model = lastGood
    /\ \E s \in Slots : req[s].kind = "retrain" /\ req[s].pc = "await"

====
